---- MODULE Spec2Model ----
(***************************************************************************)
(* A model of the kptracer geometry kernel (src/src/matrix.rs, tuple.rs,   *)
(* util.rs, ray.rs, shapes/sphere.rs) and of its canvas (canvas.rs,        *)
(* color.rs).                                                              *)
(*                                                                         *)
(* Numbers.  An f64 is modelled as a pair <<n, d>>: a finite value is the  *)
(* fraction n/d in lowest terms with d > 0; <<1, 0>> is +inf, <<-1, 0>> is *)
(* -inf and <<0, 0>> is NaN.  Arithmetic on finite values is exact (the    *)
(* rounding of f64 is abstracted; the inputs are small integers and        *)
(* fractions, for which the rounding is far below the 1e-5 tolerance of    *)
(* approx_eq); the special values follow IEEE-754.  The sign of a zero is  *)
(* not kept: the kernel divides by a determinant, which the code           *)
(* accumulates from +0.0 and which therefore is never -0.0, and by 2 * a   *)
(* in Sphere::intersect, where a is a sum of squares and the quotient by a *)
(* zero a is 0.0 / 0.0.                                                    *)
(*                                                                         *)
(* Faults.  A Rust panic (explicit panic!, index out of bounds, remainder  *)
(* by zero, usize underflow under overflow checks) is the result           *)
(* Panic(why); every other result is Ok(val).  A panic ends the run: the   *)
(* unwinding drops the caller's matrix and no further call is made.        *)
(***************************************************************************)
EXTENDS Integers, Sequences, FiniteSets, TLC

VARIABLES m, op, args, ret, steps, canvas, writes

vars == <<m, op, args, ret, steps, canvas, writes>>

-----------------------------------------------------------------------------
(* Bounds of the model.                                                    *)

MaxRows == 3

MaxLen == 4

MaxSteps == 2

MaxChain == 12

MaxEntry == 9

MaxCoord == 1

MaxQuarters == 6

MaxXY == 2

MaxWrites == 2

-----------------------------------------------------------------------------
(* Results of calls.                                                       *)

Ok(v) == [panic |-> FALSE, why |-> "", val |-> v]

Panic(why) == [panic |-> TRUE, why |-> why, val |-> <<>>]

(* A sequence of results is a panic as soon as one of them is.             *)
Collect(rs) ==
    IF \E k \in DOMAIN rs : rs[k].panic
    THEN Panic(rs[CHOOSE k \in DOMAIN rs :
                     rs[k].panic /\ \A j \in DOMAIN rs : rs[j].panic => k <= j].why)
    ELSE Ok([k \in DOMAIN rs |-> rs[k].val])

-----------------------------------------------------------------------------
(* f64.                                                                    *)

Abs(x) == IF x < 0 THEN -x ELSE x

Sign(x) == IF x < 0 THEN -1 ELSE IF x > 0 THEN 1 ELSE 0

RECURSIVE Gcd(_, _)
Gcd(a, b) == IF b = 0 THEN a ELSE Gcd(b, a % b)

NaN == <<0, 0>>

PosInf == <<1, 0>>

NegInf == <<-1, 0>>

IsNaN(x) == x[2] = 0 /\ x[1] = 0

IsInf(x) == x[2] = 0 /\ x[1] # 0

IsFinite(x) == x[2] # 0

(* The fraction n/d, d # 0, in lowest terms with a positive denominator.   *)
Frac(n, d) ==
    LET g == Gcd(Abs(n), Abs(d))
        s == IF d < 0 THEN -1 ELSE 1
    IN  <<(s * n) \div g, (s * d) \div g>>

F(i) == <<i, 1>>

FNeg(x) == <<-x[1], x[2]>>

FAdd(x, y) ==
    IF IsNaN(x) \/ IsNaN(y) THEN NaN
    ELSE IF IsInf(x) THEN (IF IsInf(y) /\ y[1] # x[1] THEN NaN ELSE x)
    ELSE IF IsInf(y) THEN y
    ELSE LET g == Gcd(x[2], y[2])
         IN  Frac(x[1] * (y[2] \div g) + y[1] * (x[2] \div g), (x[2] \div g) * y[2])

FSub(x, y) == FAdd(x, FNeg(y))

FMul(x, y) ==
    IF IsNaN(x) \/ IsNaN(y) THEN NaN
    ELSE IF IsInf(x) \/ IsInf(y)
         THEN (IF x[1] = 0 \/ y[1] = 0 THEN NaN
               ELSE <<Sign(x[1]) * Sign(y[1]), 0>>)
    ELSE LET g1 == Gcd(Abs(x[1]), y[2])
             g2 == Gcd(Abs(y[1]), x[2])
         IN  Frac((x[1] \div g1) * (y[1] \div g2), (x[2] \div g2) * (y[2] \div g1))

FDiv(x, y) ==
    IF IsNaN(x) \/ IsNaN(y) THEN NaN
    ELSE IF IsInf(x) THEN (IF IsInf(y) THEN NaN
                           ELSE IF y[1] < 0 THEN FNeg(x) ELSE x)
    ELSE IF IsInf(y) THEN F(0)
    ELSE IF y[1] = 0 THEN (IF x[1] = 0 THEN NaN ELSE <<Sign(x[1]), 0>>)
    ELSE FMul(x, Frac(y[2], y[1]))

FAbs(x) == <<Abs(x[1]), x[2]>>

(* x < y for f64: false as soon as one side is NaN.                        *)
FLt(x, y) ==
    IF IsNaN(x) \/ IsNaN(y) THEN FALSE
    ELSE IF IsInf(x) THEN x[1] < 0 /\ y # x
    ELSE IF IsInf(y) THEN y[1] > 0
    ELSE x[1] * y[2] < y[1] * x[2]

(* x == y for f64: NaN equals nothing.                                     *)
FEq(x, y) == ~IsNaN(x) /\ ~IsNaN(y) /\ x = y

EPSILON == <<1, 100000>>

approx_eq(x, y) == FLt(FAbs(FSub(x, y)), EPSILON)

-----------------------------------------------------------------------------
(* Vec<f64> indexing: the only bounds check of the kernel.                 *)

VecGet(values, i) ==
    IF i < Len(values) THEN Ok(values[i + 1]) ELSE Panic("index out of bounds")

-----------------------------------------------------------------------------
(* Matrix.                                                                 *)

Mat(rows, cols, values) == [rows |-> rows, cols |-> cols, values |-> values]

Matrix_new(rows, cols) == Mat(rows, cols, [k \in 1..(rows * cols) |-> F(0)])

(* new_with_values without its divisibility check.                         *)
new_with_values_unchecked(rows, values) ==
    IF rows = 0 THEN Panic("remainder with a divisor of zero")
    ELSE Ok(Mat(rows, Len(values) \div rows, values))

(* new_with_values deriving the columns from the wrong quotient.           *)
new_with_values_cols(rows, values) ==
    IF rows = 0 THEN Panic("remainder with a divisor of zero")
    ELSE IF Len(values) % rows # 0 THEN Panic("not divisible")
    ELSE Ok(Mat(rows, rows, values))

new_with_values(rows, values) ==
    IF rows = 0 THEN Panic("remainder with a divisor of zero")
    ELSE IF Len(values) % rows # 0 THEN Panic("not divisible")
    ELSE Ok(Mat(rows, Len(values) \div rows, values))

Zeros(n) == [k \in 1..n |-> F(0)]

RECURSIVE IdentityValues(_, _)
IdentityValues(i, rows) ==
    IF i >= rows THEN <<>>
    ELSE Zeros(i) \o <<F(1)>> \o Zeros(rows - (i + 1)) \o IdentityValues(i + 1, rows)

identity(rows) == new_with_values(rows, IdentityValues(0, rows))

write_value(M, row, col, v) ==
    IF row * M.cols + col < Len(M.values)
    THEN Ok([M EXCEPT !.values[row * M.cols + col + 1] = v])
    ELSE Panic("index out of bounds")

value_at(M, row, col) == VecGet(M.values, row * M.cols + col)

transpose(M) ==
    LET rs == [k \in 1..(M.cols * M.rows) |->
                  value_at(M, (k - 1) % M.rows, (k - 1) \div M.rows)]
        values == Collect(rs)
    IN  IF values.panic THEN values ELSE new_with_values(M.rows, values.val)

(* submatrix keeping the cells that are off the row or off the column.     *)
RECURSIVE KeptCells_either(_, _, _, _)
KeptCells_either(M, rrow, rcol, k) ==
    IF k >= M.rows * M.cols THEN <<>>
    ELSE LET row == k \div M.cols
             col == k % M.cols
         IN  (IF row # rrow \/ col # rcol THEN <<<<row, col>>>> ELSE <<>>)
             \o KeptCells_either(M, rrow, rcol, k + 1)

(* The cells kept by submatrix, as (row, col) pairs in the order pushed.   *)
RECURSIVE KeptCells(_, _, _, _)
KeptCells(M, rrow, rcol, k) ==
    IF k >= M.rows * M.cols THEN <<>>
    ELSE LET row == k \div M.cols
             col == k % M.cols
         IN  (IF row # rrow /\ col # rcol THEN <<<<row, col>>>> ELSE <<>>)
             \o KeptCells(M, rrow, rcol, k + 1)

(* self.rows - 1 is a usize subtraction: with no row it panics (overflow    *)
(* checks on, as in the build the test-suite runs).                        *)
submatrix(M, rrow, rcol) ==
    LET cells == KeptCells(M, rrow, rcol, 0)
        values == Collect([k \in DOMAIN cells |-> value_at(M, cells[k][1], cells[k][2])])
    IN  IF values.panic THEN values
        ELSE IF M.rows = 0 THEN Panic("attempt to subtract with overflow")
        ELSE new_with_values(M.rows - 1, values.val)

RECURSIVE determinant(_), DeterminantLoop(_, _, _), minor(_, _, _), cofactor(_, _, _)
(* determinant without its 2 x 2 base case.                                *)
determinant_nobase(M) == DeterminantLoop(M, 0, F(0))

determinant(M) ==
    IF M.rows = 2 /\ M.cols = 2
    THEN LET a == value_at(M, 0, 0)
             d == value_at(M, 1, 1)
             b == value_at(M, 0, 1)
             c == value_at(M, 1, 0)
         IN  IF a.panic THEN a ELSE IF d.panic THEN d
             ELSE IF b.panic THEN b ELSE IF c.panic THEN c
             ELSE Ok(FSub(FMul(a.val, d.val), FMul(b.val, c.val)))
    ELSE DeterminantLoop(M, 0, F(0))

DeterminantLoop(M, col, sum) ==
    IF col >= M.cols THEN Ok(sum)
    ELSE LET v == value_at(M, 0, col)
             cf == cofactor(M, 0, col)
         IN  IF v.panic THEN v
             ELSE IF cf.panic THEN cf
             ELSE DeterminantLoop(M, col + 1, FAdd(sum, FMul(v.val, cf.val)))

minor(M, row, col) ==
    LET sm == submatrix(M, row, col)
    IN  IF sm.panic THEN sm ELSE determinant(sm.val)

(* cofactor without the sign.                                              *)
cofactor_unsigned(M, row, col) == minor(M, row, col)

cofactor(M, row, col) ==
    LET factor == IF (row + col) % 2 = 0 THEN F(1) ELSE F(-1)
        mn == minor(M, row, col)
    IN  IF mn.panic THEN mn ELSE Ok(FMul(factor, mn.val))

(* The calls of determinant() that M.determinant() makes, itself         *)
(* included, as the shapes <<rows, cols>> of their matrices: the 2 x 2     *)
(* base case makes no further call, every other matrix one call per column *)
(* col of row 0, through cofactor(0, col), minor and submatrix(0, col).    *)
(* <<-1, -1>> stands for a call that is never made because the submatrix   *)
(* panics.                                                                 *)
RECURSIVE DeterminantCalls(_)
DeterminantCalls(M) ==
    IF M.rows = 2 /\ M.cols = 2 THEN {<<2, 2>>}
    ELSE {<<M.rows, M.cols>>}
         \cup UNION { LET sm == submatrix(M, 0, col)
                      IN  IF sm.panic THEN {<<-1, -1>>} ELSE DeterminantCalls(sm.val) :
                      col \in 0..(M.cols - 1) }

invertible(M) ==
    LET det == determinant(M)
    IN  IF det.panic THEN det ELSE Ok(~FEq(det.val, F(0)))

(* The last loop of inverse: every cell of the transposed cofactor matrix  *)
(* divided by the determinant.                                             *)
InverseDivide(tc, det) ==
    IF tc.panic THEN tc
    ELSE IF det.panic THEN det
    ELSE LET i_values ==
                 Collect([k \in 1..(tc.val.rows * tc.val.cols) |->
                    LET x == value_at(tc.val, (k - 1) \div tc.val.cols,
                                              (k - 1) % tc.val.cols)
                    IN  IF x.panic THEN x ELSE Ok(FDiv(x.val, det.val))])
         IN  IF i_values.panic THEN i_values
             ELSE new_with_values(tc.val.rows, i_values.val)

(* inverse without the transposition of the cofactor matrix.               *)
InverseTransposed_not(M, cm) ==
    IF cm.panic THEN cm ELSE InverseDivide(cm, determinant(M))

(* inverse once the cofactor matrix cm is built.                           *)
InverseTransposed(M, cm) ==
    IF cm.panic THEN cm ELSE InverseDivide(transpose(cm.val), determinant(M))

(* inverse once the cofactors are pushed.                                  *)
InverseCofactors(M, values) ==
    IF values.panic THEN values
    ELSE InverseTransposed(M, new_with_values(M.rows, values.val))

inverse(M) ==
    InverseCofactors(M, Collect([k \in 1..(M.rows * M.cols) |->
                           cofactor(M, (k - 1) \div M.cols, (k - 1) % M.cols)]))

RECURSIVE EqLoop(_, _, _)
EqLoop(A, B, i) ==
    IF i >= Len(A.values) THEN Ok(TRUE)
    ELSE LET x == VecGet(A.values, i)
             y == VecGet(B.values, i)
         IN  IF x.panic THEN x ELSE IF y.panic THEN y
             ELSE IF ~approx_eq(x.val, y.val) THEN Ok(FALSE)
             ELSE EqLoop(A, B, i + 1)

Matrix_eq(A, B) ==
    IF A.rows # B.rows THEN Ok(FALSE)
    ELSE IF A.cols # B.cols THEN Ok(FALSE)
    ELSE EqLoop(A, B, 0)

(* sum over i in 0..n of A(s_row, i) * B(i, o_col), accumulated from 0.0.   *)
RECURSIVE DotLoop(_, _, _, _, _)
DotLoop(A, B, s_row, o_col, i) ==
    IF i = 0 THEN Ok(F(0))
    ELSE LET acc == DotLoop(A, B, s_row, o_col, i - 1)
             x == value_at(A, s_row, i - 1)
             y == value_at(B, i - 1, o_col)
         IN  IF acc.panic THEN acc
             ELSE IF x.panic THEN x ELSE IF y.panic THEN y
             ELSE Ok(FAdd(acc.val, FMul(x.val, y.val)))

Matrix_mul(A, B) ==
    IF A.cols # B.rows THEN Panic("These matrices cannot be multiplied!")
    ELSE LET values == Collect([k \in 1..(A.rows * B.cols) |->
                           DotLoop(A, B, (k - 1) \div B.cols, (k - 1) % B.cols, A.cols)])
         IN  IF values.panic THEN values ELSE new_with_values(A.rows, values.val)

(* assert_eq!(product, expected), once the product is computed.            *)
MulThenEq(p, expected) == IF p.panic THEN p ELSE Matrix_eq(p.val, expected)

(* Matrix::identity(M.rows) * M == M, and M * Matrix::identity(M.cols) == M *)
(* as the test-suite computes them.                                        *)
AfterIdentity(id, M, left) ==
    IF id.panic THEN id
    ELSE IF left THEN MulThenEq(Matrix_mul(id.val, M), M)
    ELSE MulThenEq(Matrix_mul(M, id.val), M)

identity_times(M) == AfterIdentity(identity(M.rows), M, TRUE)

times_identity(M) == AfterIdentity(identity(M.cols), M, FALSE)

(* Tuple (src/src/tuple.rs): four f64 components.                          *)
Tuple_new(x, y, z, w) == <<x, y, z, w>>

point(x, y, z) == <<x, y, z, F(1)>>

vector(x, y, z) == <<x, y, z, F(0)>>

get(t, i) == IF i \in 0..3 THEN Ok(t[i + 1]) ELSE Panic("Out of Tuple bounds!")

(* One row of Matrix * Tuple without the product by the w component.       *)
MulTupleRow_xyz(M, t, s_row) ==
    LET a == [i \in 1..3 |-> value_at(M, s_row, i - 1)]
    IN  IF \E i \in 1..3 : a[i].panic THEN Panic("index out of bounds")
        ELSE Ok(FAdd(FAdd(FMul(a[1].val, t[1]), FMul(a[2].val, t[2])),
                     FMul(a[3].val, t[3])))

(* One pushed value of Matrix * Tuple: the four products of row s_row.     *)
MulTupleRow(M, t, s_row) ==
    LET a == [i \in 1..4 |-> value_at(M, s_row, i - 1)]
        b == [i \in 1..4 |-> get(t, i - 1)]
        bad == {i \in 1..4 : a[i].panic \/ b[i].panic}
        p == [i \in 1..4 |-> FMul(a[i].val, b[i].val)]
    IN  IF bad # {}
        THEN (LET i == CHOOSE i \in bad : \A j \in bad : i <= j
              IN  IF a[i].panic THEN a[i] ELSE b[i])
        ELSE Ok(FAdd(FAdd(FAdd(p[1], p[2]), p[3]), p[4]))

Matrix_mul_tuple(M, t) ==
    IF M.cols # 4 THEN Panic("This matrix cannot be multiplied by a 4-tuple!")
    ELSE LET values == Collect([k \in 1..M.rows |-> MulTupleRow(M, t, k - 1)])
             c == [i \in 1..4 |-> VecGet(values.val, i - 1)]
         IN  IF values.panic THEN values
             ELSE IF \E i \in 1..4 : c[i].panic THEN Panic("index out of bounds")
             ELSE Ok(Tuple_new(c[1].val, c[2].val, c[3].val, c[4].val))

(* identity(4) followed by the write_value calls ws = <<row, col, v>>...   *)
RECURSIVE WriteAll(_, _)
WriteAll(r, ws) ==
    IF r.panic \/ ws = <<>> THEN r
    ELSE WriteAll(write_value(r.val, ws[1][1], ws[1][2], ws[1][3]), Tail(ws))

(* translation with the offsets in the last row.                           *)
translation_row(x, y, z) ==
    WriteAll(identity(4), <<<<3, 0, x>>, <<3, 1, y>>, <<3, 2, z>>>>)

translation(x, y, z) ==
    WriteAll(identity(4), <<<<0, 3, x>>, <<1, 3, y>>, <<2, 3, z>>>>)

scaling(x, y, z) ==
    WriteAll(identity(4), <<<<0, 0, x>>, <<1, 1, y>>, <<2, 2, z>>>>)

(* rad.cos() and rad.sin() on the angles of the model, whose cosine and    *)
(* sine are rational.                                                      *)
Cos(rad) ==
    CASE rad = "0" -> F(1)
      [] rad = "pi/2" -> F(0)
      [] rad = "atan(4/3)" -> <<3, 5>>

Sin(rad) ==
    CASE rad = "0" -> F(0)
      [] rad = "pi/2" -> F(1)
      [] rad = "atan(4/3)" -> <<4, 5>>

rotation_x(rad) ==
    WriteAll(identity(4), <<<<1, 1, Cos(rad)>>, <<1, 2, FNeg(Sin(rad))>>,
                            <<2, 1, Sin(rad)>>, <<2, 2, Cos(rad)>>>>)

rotation_y(rad) ==
    WriteAll(identity(4), <<<<0, 0, Cos(rad)>>, <<0, 2, Sin(rad)>>,
                            <<2, 0, FNeg(Sin(rad))>>, <<2, 2, Cos(rad)>>>>)

rotation_z(rad) ==
    WriteAll(identity(4), <<<<0, 0, Cos(rad)>>, <<0, 1, FNeg(Sin(rad))>>,
                            <<1, 0, Sin(rad)>>, <<1, 1, Cos(rad)>>>>)

shearing(xy, xz, yx, yz, zx, zy) ==
    WriteAll(identity(4), <<<<0, 1, xy>>, <<0, 2, xz>>, <<1, 0, yx>>,
                            <<1, 2, yz>>, <<2, 0, zx>>, <<2, 1, zy>>>>)

-----------------------------------------------------------------------------
(* Tuple arithmetic (src/src/tuple.rs).                                    *)

is_point(t) == FEq(t[4], F(1))

is_vector(t) == approx_eq(t[4], F(0))

dot(t, r) ==
    FAdd(FAdd(FAdd(FMul(t[1], r[1]), FMul(t[2], r[2])), FMul(t[3], r[3])),
         FMul(t[4], r[4]))

(* cross with a sum for the third component.                               *)
cross_sum(t, r) ==
    vector(FSub(FMul(t[2], r[3]), FMul(t[3], r[2])),
           FSub(FMul(t[3], r[1]), FMul(t[1], r[3])),
           FAdd(FMul(t[1], r[2]), FMul(t[2], r[1])))

cross(t, r) ==
    vector(FSub(FMul(t[2], r[3]), FMul(t[3], r[2])),
           FSub(FMul(t[3], r[1]), FMul(t[1], r[3])),
           FSub(FMul(t[1], r[2]), FMul(t[2], r[1])))

Tuple_eq(t, r) ==
    /\ approx_eq(t[1], r[1])
    /\ approx_eq(t[2], r[2])
    /\ approx_eq(t[3], r[3])
    /\ approx_eq(t[4], r[4])

Tuple_add(t, r) ==
    Tuple_new(FAdd(t[1], r[1]), FAdd(t[2], r[2]), FAdd(t[3], r[3]), FAdd(t[4], r[4]))

(* subtraction that keeps the w of the left operand.                       *)
Tuple_sub_xyz(t, r) ==
    Tuple_new(FSub(t[1], r[1]), FSub(t[2], r[2]), FSub(t[3], r[3]), t[4])

Tuple_sub(t, r) ==
    Tuple_new(FSub(t[1], r[1]), FSub(t[2], r[2]), FSub(t[3], r[3]), FSub(t[4], r[4]))

Tuple_neg(t) == Tuple_sub(Tuple_new(F(0), F(0), F(0), F(0)), t)

-----------------------------------------------------------------------------
(* Ray and Sphere (src/src/ray.rs, src/src/shapes/sphere.rs).             *)

Ray_new(origin, direction) == [origin |-> origin, direction |-> direction]

(* The largest k in lo..hi with k * k <= n, for lo * lo <= n.              *)
RECURSIVE ISqrtLoop(_, _, _)
ISqrtLoop(n, lo, hi) ==
    IF lo >= hi THEN lo
    ELSE LET mid == (lo + hi + 1) \div 2
         IN  IF mid * mid <= n THEN ISqrtLoop(n, mid, hi) ELSE ISqrtLoop(n, lo, mid - 1)

ISqrt(n) == ISqrtLoop(n, 0, 46340)

SqrtGrid == 256

(* f64::sqrt: NaN below zero, exact on the squares of fractions, and       *)
(* otherwise rounded down to a multiple of 1 / SqrtGrid (f64 rounds to a   *)
(* relative 2^-53).                                                        *)
FSqrt(x) ==
    IF IsNaN(x) THEN NaN
    ELSE IF IsInf(x) THEN (IF x[1] > 0 THEN PosInf ELSE NaN)
    ELSE IF x[1] < 0 THEN NaN
    ELSE LET rn == ISqrt(x[1])
             rd == ISqrt(x[2])
         IN  IF rn * rn = x[1] /\ rd * rd = x[2] THEN Frac(rn, rd)
             ELSE Frac(ISqrt((x[1] * SqrtGrid * SqrtGrid) \div x[2]), SqrtGrid)

(* The material of a sphere: an opaque value, copied into each             *)
(* intersection.                                                           *)
Material == "Material"

Intersection(mat, t) == [mat |-> mat, t |-> t]

Sphere_new == [origin |-> point(F(0), F(0), F(0)), radius |-> F(1), mat |-> Material]

(* intersect returning one intersection for a tangent ray.                 *)
intersect_dedup(self, ray) ==
    LET sphere_to_ray == Tuple_sub(ray.origin, point(F(0), F(0), F(0)))
        a == dot(ray.direction, ray.direction)
        b == FMul(dot(ray.direction, sphere_to_ray), F(2))
        c == FSub(dot(sphere_to_ray, sphere_to_ray), F(1))
        disciminant == FSub(FMul(b, b), FMul(FMul(F(4), a), c))
    IN  IF FLt(disciminant, F(0)) THEN <<>>
        ELSE LET t1 == FDiv(FSub(FNeg(b), FSqrt(disciminant)), FMul(F(2), a))
                 t2 == FDiv(FAdd(FNeg(b), FSqrt(disciminant)), FMul(F(2), a))
             IN  IF FEq(disciminant, F(0)) THEN <<Intersection(self.mat, t1)>>
                 ELSE <<Intersection(self.mat, t1), Intersection(self.mat, t2)>>

intersect(self, ray) ==
    LET sphere_to_ray == Tuple_sub(ray.origin, point(F(0), F(0), F(0)))
        a == dot(ray.direction, ray.direction)
        b == FMul(dot(ray.direction, sphere_to_ray), F(2))
        c == FSub(dot(sphere_to_ray, sphere_to_ray), F(1))
        disciminant == FSub(FMul(b, b), FMul(FMul(F(4), a), c))
    IN  IF FLt(disciminant, F(0)) THEN <<>>
        ELSE LET t1 == FDiv(FSub(FNeg(b), FSqrt(disciminant)), FMul(F(2), a))
                 t2 == FDiv(FAdd(FNeg(b), FSqrt(disciminant)), FMul(F(2), a))
             IN  <<Intersection(self.mat, t1), Intersection(self.mat, t2)>>

-----------------------------------------------------------------------------
(* util::clamp and util::scale (src/src/util.rs).                          *)

I32_MAX == 2147483647

I32_MIN == -I32_MAX - 1

clamp(input, min, max) ==
    IF input > max THEN max
    ELSE IF input < min THEN min
    ELSE input

(* The integer part of the finite fraction x, rounded toward zero.         *)
Trunc(x) == IF x[1] < 0 THEN -((-x[1]) \div x[2]) ELSE x[1] \div x[2]

(* `as i32` rounding to the nearest integer.                               *)
AsI32_nearest(x) ==
    IF IsNaN(x) THEN 0
    ELSE IF IsInf(x) THEN (IF x[1] > 0 THEN I32_MAX ELSE I32_MIN)
    ELSE Trunc(FAdd(x, IF x[1] < 0 THEN Frac(-1, 2) ELSE Frac(1, 2)))

(* f64 `as i32`: the integer part, saturating at the ends of i32; 0 for    *)
(* NaN.  The finite values of the model are all within the range of i32.   *)
AsI32(x) ==
    IF IsNaN(x) THEN 0
    ELSE IF IsInf(x) THEN (IF x[1] > 0 THEN I32_MAX ELSE I32_MIN)
    ELSE Trunc(x)

scale(input, max) == clamp(AsI32(FMul(input, F(max))), 0, max)

-----------------------------------------------------------------------------
(* Color and Canvas (src/src/color.rs, src/src/canvas.rs).                 *)

Color_new(r, g, b) == <<r, g, b>>

Color_eq(c, r) ==
    /\ approx_eq(c[1], r[1])
    /\ approx_eq(c[2], r[2])
    /\ approx_eq(c[3], r[3])

Canvas(width, height, pixels) == [width |-> width, height |-> height, pixels |-> pixels]

Canvas_new(width, height) ==
    Canvas(width, height, [k \in 1..(width * height) |-> Color_new(F(0), F(0), F(0))])

(* write_pixel storing at x * width + y.                                   *)
write_pixel_xy(self, x, y, p) ==
    IF x * self.width + y < Len(self.pixels)
    THEN Ok([self EXCEPT !.pixels[x * self.width + y + 1] = p])
    ELSE Panic("index out of bounds")

write_pixel(self, x, y, p) ==
    IF y * self.width + x < Len(self.pixels)
    THEN Ok([self EXCEPT !.pixels[y * self.width + x + 1] = p])
    ELSE Panic("index out of bounds")

pixel_at(self, x, y) ==
    IF y * self.width + x < Len(self.pixels)
    THEN Ok(self.pixels[y * self.width + x + 1])
    ELSE Panic("index out of bounds")


-----------------------------------------------------------------------------
(* Inputs.                                                                 *)

Scalars == {F(-1), F(2)}

SmallVecs == UNION {[1..n -> Scalars] : n \in 0..MaxLen}

Ints(s) == [k \in DOMAIN s |-> F(s[k])]

(* Arguments of new_with_values: matrices of the test-suite, rectangular   *)
(* ones, and two with cells that are not finite.                           *)
Fixtures ==
    { <<2, Ints(<<1, 5, -3, 2>>)>>,
      <<3, Ints(<<1, 2, 6, -5, 8, -4, 2, 6, 4>>)>>,
      <<3, Ints(<<3, 5, 0, 2, -1, -7, 6, -1, 5>>)>>,
      <<4, Ints(<<-2, -8, 3, 5, -3, 1, 7, 3, 1, 2, -9, 6, -6, 7, 7, -9>>)>>,
      <<4, Ints(<<-5, 2, 6, -8, 1, -5, 1, 8, 7, 7, -6, -7, 1, -3, 7, 4>>)>>,
      <<4, Ints(<<-4, 2, -2, -3, 9, 6, 2, 6, 0, -5, 1, -5, 0, 0, 0, 0>>)>>,
      <<4, Ints(<<1, 2, 3, 4, 5>>)>>,
      <<2, Ints(<<1, 2, 3, 4, 2, 4, 4, 2>>)>>,
      <<3, Ints(<<1, 2, 3, 4, 2, 4, 4, 2, 8, 6, 4, 1>>)>>,
      <<4, Ints(<<1, 2, 3, 4, 2, 4, 4, 2, 8, 6, 4, 1>>)>>,
      <<5, Ints(<<1, 2, 3, 4, 2, 4, 4, 2, 8, 6, 4, 1, 0, 0, 0, 1, 7, 7, 7, 7>>)>>,
      <<1, <<PosInf>>>>,
      <<2, <<F(1), NaN, NegInf, F(0)>>>> }

(* The 3 x 3 matrices whose rows are rows of tests::determinant's m3, in   *)
(* any order and with repetitions.                                         *)
Rows3 == {Ints(<<1, 2, 6>>), Ints(<<-5, 8, -4>>), Ints(<<2, 6, 4>>)}

Squares3 == {<<3, a \o b \o c>> : a \in Rows3, b \in Rows3, c \in Rows3}

Angles == {"0", "pi/2", "atan(4/3)"}

Units == {F(0), F(1)}

Tuples ==
    { point(F(1), F(2), F(3)), vector(F(-3), F(4), F(5)),
      point(F(-3), F(4), F(5)), vector(F(1), Frac(1, 2), F(0)) }

(* The arguments (x, y, z) of translation: those of                       *)
(* tests::translation_points, and others with a zero, a fraction and       *)
(* repeated values.                                                        *)
Offsets ==
    { <<F(5), F(-3), F(2)>>, <<F(-3), Frac(1, 2), F(5)>>,
      <<F(0), F(2), F(-1)>>, <<Frac(1, 2), Frac(1, 2), Frac(-3, 2)>> }

(* (row, col) arguments: in range or not, depending on the matrix.         *)
Cells == { <<0, 0>>, <<0, 1>>, <<1, 0>>, <<1, 1>>, <<0, 2>>, <<2, 1>>, <<1, 3>>, <<3, 2>> }

(* The (row, col) arguments of write_value.                                *)
WriteCells == { <<0, 0>>, <<0, 1>>, <<2, 1>> }

(* The other operand of a product or of a comparison.                      *)
Operands ==
    { Mat(2, 2, Ints(<<1, 5, -3, 2>>)),
      Mat(3, 3, Ints(<<3, 5, 0, 2, -1, -7, 6, -1, 5>>)),
      Mat(4, 4, Ints(<<8, 2, 2, 2, 3, -1, 7, 0, 7, 0, 5, 4, 6, -2, 0, 5>>)),
      Mat(2, 4, Ints(<<1, 2, 3, 4, 2, 4, 4, 2>>)),
      Matrix_new(2, 0) }

-----------------------------------------------------------------------------
(* The state machine.  A run builds one matrix; it then either reads it,   *)
(* or makes up to MaxSteps calls that replace it by their result (one     *)
(* call if the matrix has more than MaxChain cells).  m is                 *)
(* the matrix the caller holds, op/args/ret the last call and its result.  *)

(* What is left of the caller's matrix after a panic.                      *)
Dropped == Mat(0, 0, <<>>)

(* The caller's canvas before Canvas::new and after a panic.               *)
NoCanvas == Canvas(0, 0, <<>>)

Init ==
    /\ m = Dropped
    /\ op = "init"
    /\ args = <<>>
    /\ ret = Ok(<<>>)
    /\ steps = 0
    /\ canvas = NoCanvas
    /\ writes = <<>>

(* The arithmetic of the model is exact over machine integers: the calls   *)
(* that multiply cells are made on matrices whose cells are small enough   *)
(* for the products of a cofactor expansion (Small) or of one dot product  *)
(* (Medium).  The special values are small.                                *)
Within(M, b) ==
    \A k \in DOMAIN M.values : Abs(M.values[k][1]) <= b /\ M.values[k][2] <= b

Small(M) == Within(M, MaxEntry)

Medium(M) == Within(M, MaxEntry * MaxEntry * MaxEntry * MaxEntry)

Constructors ==
    { "new", "new_with_values", "identity", "translation", "scaling",
      "rotation_x", "rotation_y", "rotation_z", "shearing" }

(* A call that builds the matrix of the run, or panics.                    *)
Construct(name, a, r) ==
    /\ op = "init"
    /\ op' = name
    /\ args' = a
    /\ ret' = r
    /\ m' = IF r.panic THEN Dropped ELSE r.val
    /\ steps' = 0
    /\ UNCHANGED <<canvas, writes>>

(* A call that replaces the caller's matrix by its result.  A second or    *)
(* later call is made on matrices of at most MaxChain cells.               *)
Replace(name, a, r) ==
    /\ op \in Constructors \/ steps > 0
    /\ ~ret.panic
    /\ steps < MaxSteps
    /\ steps = 0 \/ Len(m.values) <= MaxChain
    /\ op' = name
    /\ args' = a
    /\ ret' = r
    /\ m' = IF r.panic THEN Dropped ELSE r.val
    /\ steps' = steps + 1
    /\ UNCHANGED <<canvas, writes>>

(* A call on the matrix just built (or on a clone of it) that returns a    *)
(* value and leaves the matrix as it is.                                   *)
Observe(name, a, r) ==
    /\ op \in Constructors
    /\ ~ret.panic
    /\ op' = name
    /\ args' = a
    /\ ret' = r
    /\ m' = IF r.panic THEN Dropped ELSE m
    /\ steps' = steps
    /\ UNCHANGED <<canvas, writes>>

New ==
    \E rows \in 0..MaxRows, cols \in 0..MaxRows :
        Construct("new", [rows |-> rows, cols |-> cols], Ok(Matrix_new(rows, cols)))

NewWithValues ==
    \E in \in ((0..MaxRows) \X SmallVecs) \cup Fixtures \cup Squares3 :
        Construct("new_with_values", [rows |-> in[1], values |-> in[2]],
                  new_with_values(in[1], in[2]))

Identity ==
    \E rows \in 0..(MaxRows + 1) :
        Construct("identity", [rows |-> rows], identity(rows))

Translation ==
    \E o \in Offsets :
        Construct("translation", [x |-> o[1], y |-> o[2], z |-> o[3]],
                  translation(o[1], o[2], o[3]))

Scaling ==
    \E x \in Scalars, y \in Scalars, z \in Scalars :
        Construct("scaling", [x |-> x, y |-> y, z |-> z], scaling(x, y, z))

RotationX == \E rad \in Angles : Construct("rotation_x", [rad |-> rad], rotation_x(rad))

RotationY == \E rad \in Angles : Construct("rotation_y", [rad |-> rad], rotation_y(rad))

RotationZ == \E rad \in Angles : Construct("rotation_z", [rad |-> rad], rotation_z(rad))

Shearing ==
    \E xy \in Units, yx \in Units, zy \in Units :
        Construct("shearing", [xy |-> xy, xz |-> F(0), yx |-> yx,
                               yz |-> F(2), zx |-> F(0), zy |-> zy],
                  shearing(xy, F(0), yx, F(2), F(0), zy))

WriteValue ==
    \E c \in WriteCells :
        Replace("write_value", [self |-> m, row |-> c[1], col |-> c[2], v |-> F(7)],
                write_value(m, c[1], c[2], F(7)))

ValueAt ==
    \E c \in Cells :
        Observe("value_at", [self |-> m, row |-> c[1], col |-> c[2]],
                value_at(m, c[1], c[2]))

Transpose == Replace("transpose", [self |-> m], transpose(m))

Submatrix ==
    \E c \in Cells :
        Replace("submatrix", [self |-> m, rrow |-> c[1], rcol |-> c[2]],
                submatrix(m, c[1], c[2]))

Determinant == Small(m) /\ Observe("determinant", [self |-> m], determinant(m))

Minor ==
    \E c \in Cells :
        Small(m) /\ Observe("minor", [self |-> m, row |-> c[1], col |-> c[2]],
                            minor(m, c[1], c[2]))

Cofactor ==
    \E c \in Cells :
        Small(m) /\ Observe("cofactor", [self |-> m, row |-> c[1], col |-> c[2]],
                            cofactor(m, c[1], c[2]))

Invertible == Small(m) /\ Observe("invertible", [self |-> m], invertible(m))

Inverse == Small(m) /\ Replace("inverse", [self |-> m], inverse(m))

Eq ==
    \E other \in Operands \cup {m} :
        Observe("eq", [self |-> m, other |-> other], Matrix_eq(m, other))

(* self * other with the caller's matrix on the left,                      *)
Mul ==
    \E other \in Operands :
        Medium(m) /\ Replace("mul", [self |-> m, other |-> other], Matrix_mul(m, other))

(* and with the caller's matrix on the right.                              *)
MulBy ==
    \E left \in Operands :
        Medium(m) /\ Replace("mul", [self |-> left, other |-> m], Matrix_mul(left, m))

MulTuple ==
    \E t \in Tuples :
        Medium(m) /\ Observe("mul_tuple", [self |-> m, other |-> t],
                             Matrix_mul_tuple(m, t))

IdentityTimes ==
    Medium(m) /\ Observe("identity_times", [self |-> m], identity_times(m))

TimesIdentity ==
    Medium(m) /\ Observe("times_identity", [self |-> m], times_identity(m))

Next ==
    \/ New
    \/ NewWithValues
    \/ Identity
    \/ Translation
    \/ Scaling
    \/ RotationX
    \/ RotationY
    \/ RotationZ
    \/ Shearing
    \/ WriteValue
    \/ ValueAt
    \/ Transpose
    \/ Submatrix
    \/ Determinant
    \/ Minor
    \/ Cofactor
    \/ Invertible
    \/ Inverse
    \/ Eq
    \/ Mul
    \/ MulBy
    \/ MulTuple
    \/ IdentityTimes
    \/ TimesIdentity

Spec == Init /\ [][Next]_vars

-----------------------------------------------------------------------------
(* Calls on tuples.  Each run makes one call; op/args/ret are the call and *)
(* its result.                                                             *)

Coords == {F(k) : k \in (-MaxCoord)..MaxCoord}

(* Points and vectors.                                                     *)
TupleInputs ==
    {point(x, y, z) : x \in Coords, y \in Coords, z \in Coords}
        \cup {vector(x, y, z) : x \in Coords, y \in Coords, z \in Coords}

(* A call of a function that holds no state, the only call of its run.     *)
Call(name, a, r) ==
    /\ op' = name
    /\ args' = a
    /\ ret' = r
    /\ UNCHANGED <<m, steps, canvas, writes>>

Add ==
    /\ op = "init"
    /\ \E t \in TupleInputs, r \in Tuples :
        Call("add", [self |-> t, rhs |-> r], Ok(Tuple_add(t, r)))

Sub ==
    /\ op = "init"
    /\ \E t \in TupleInputs, r \in TupleInputs :
        Call("sub", [self |-> t, rhs |-> r], Ok(Tuple_sub(t, r)))

Neg == op = "init" /\ \E t \in TupleInputs : Call("neg", [self |-> t], Ok(Tuple_neg(t)))

Dot ==
    /\ op = "init"
    /\ \E t \in TupleInputs, r \in Tuples :
        Call("dot", [self |-> t, rhs |-> r], Ok(dot(t, r)))

Cross ==
    /\ op = "init"
    /\ \E t \in TupleInputs, r \in TupleInputs :
        Call("cross", [self |-> t, rhs |-> r], Ok(cross(t, r)))

TupleEq ==
    /\ op = "init"
    /\ \E t \in TupleInputs, r \in Tuples :
        Call("eq", [self |-> t, rhs |-> r], Ok(Tuple_eq(t, r)))

TupleNext ==
    \/ Add
    \/ Sub
    \/ Neg
    \/ Dot
    \/ Cross
    \/ TupleEq

TupleSpec == Init /\ [][TupleNext]_vars

-----------------------------------------------------------------------------
(* Sphere::intersect.  Ray::new validates nothing: the origin and the      *)
(* direction are any tuples.                                               *)

(* Origins on and around the z axis, as in the tests of sphere.rs.         *)
Origins ==
    {Tuple_new(F(x), F(y), z, w) :
        x \in (-MaxCoord)..MaxCoord, y \in 0..(MaxCoord + 1),
        z \in {F(-5), F(0), F(5)}, w \in {F(1), F(0)}}

Intersect ==
    /\ op = "init"
    /\ \E origin \in Origins, direction \in TupleInputs :
        Call("intersect", [self |-> Sphere_new, ray |-> Ray_new(origin, direction)],
             Ok(intersect(Sphere_new, Ray_new(origin, direction))))

SphereNext == Intersect

SphereSpec == Init /\ [][SphereNext]_vars

-----------------------------------------------------------------------------
(* util::clamp and util::scale.                                            *)

(* Colour components in quarters, two large values and the special ones.   *)
Components ==
    {Frac(k, 4) : k \in (-MaxQuarters)..MaxQuarters}
        \cup {F(100000), F(-100000), Frac(1, 5), Frac(9, 10), NaN, PosInf, NegInf}

Maxes == {-1, 0, 1, 2, 255, 1000}

Clamp ==
    /\ op = "init"
    /\ \E input \in {-1, 0, 55, 256, I32_MAX, I32_MIN}, min \in {0, 10}, max \in Maxes :
        Call("clamp", [input |-> input, min |-> min, max |-> max],
             Ok(clamp(input, min, max)))

Scale ==
    /\ op = "init"
    /\ \E input \in Components, max \in Maxes :
        Call("scale", [input |-> input, max |-> max], Ok(scale(input, max)))

UtilNext ==
    \/ Clamp
    \/ Scale

UtilSpec == Init /\ [][UtilNext]_vars

-----------------------------------------------------------------------------
(* Canvas.  A run creates one canvas and makes up to MaxWrites calls of    *)
(* write_pixel on it, then possibly reads one pixel; canvas is the         *)
(* caller's canvas and writes the write_pixel calls made so far, as        *)
(* <<x, y, p>>.                                                            *)

CanvasSizes == {<<0, 0>>, <<1, 1>>, <<2, 1>>, <<1, 2>>, <<2, 2>>, <<3, 2>>, <<0, 2>>}

black == Color_new(F(0), F(0), F(0))

red == Color_new(F(1), F(0), F(0))

green == Color_new(F(0), F(1), F(0))

CanvasNew ==
    \E size \in CanvasSizes :
        /\ op = "init"
        /\ op' = "Canvas::new"
        /\ args' = [width |-> size[1], height |-> size[2]]
        /\ ret' = Ok(Canvas_new(size[1], size[2]))
        /\ canvas' = Canvas_new(size[1], size[2])
        /\ UNCHANGED <<m, steps, writes>>

WritePixel ==
    /\ op \in {"Canvas::new", "write_pixel"}
    /\ ~ret.panic
    /\ Len(writes) < MaxWrites
    /\ \E x \in 0..MaxXY, y \in 0..MaxXY, p \in {red, green} :
        LET r == write_pixel(canvas, x, y, p)
        IN  /\ op' = "write_pixel"
            /\ args' = [x |-> x, y |-> y, p |-> p]
            /\ ret' = IF r.panic THEN r ELSE Ok(<<>>)
            /\ canvas' = IF r.panic THEN NoCanvas ELSE r.val
            /\ writes' = Append(writes, <<x, y, p>>)
            /\ UNCHANGED <<m, steps>>

PixelAt ==
    /\ op \in {"Canvas::new", "write_pixel"}
    /\ ~ret.panic
    /\ \E x \in 0..MaxXY, y \in 0..MaxXY :
        LET r == pixel_at(canvas, x, y)
        IN  /\ op' = "pixel_at"
            /\ args' = [x |-> x, y |-> y]
            /\ ret' = r
            /\ canvas' = IF r.panic THEN NoCanvas ELSE canvas
            /\ UNCHANGED <<m, steps, writes>>

CanvasNext ==
    \/ CanvasNew
    \/ WritePixel
    \/ PixelAt

CanvasSpec == Init /\ [][CanvasNext]_vars

-----------------------------------------------------------------------------
(* Properties.                                                             *)

WellFormed(M) == Len(M.values) = M.rows * M.cols

AllFinite(M) == \A k \in DOMAIN M.values : IsFinite(M.values[k])

InRange(M, row, col) == row < M.rows /\ col < M.cols

(* n is divisible by d: n % d is defined and is zero.                      *)
Divisible(n, d) == d # 0 /\ n % d = 0

(* C1: new_with_values(rows, values) panics exactly when values.len() is   *)
(* not divisible by rows; otherwise the matrix has the given rows,         *)
(* cols = values.len() / rows, and value_at(r, c) = values[r * cols + c]   *)
(* for every in-range r, c.                                                *)
C1_NewWithValues ==
    op = "new_with_values" =>
        LET rows == args.rows
            values == args.values
        IN  /\ ret.panic <=> ~Divisible(Len(values), rows)
            /\ ~ret.panic =>
                  /\ ret.val.rows = rows
                  /\ ret.val.cols = Len(values) \div rows
                  /\ \A r \in 0..(rows - 1), c \in 0..((Len(values) \div rows) - 1) :
                        value_at(ret.val, r, c)
                            = Ok(values[r * (Len(values) \div rows) + c + 1])

C1_Witness ==
    /\ op = "new_with_values"
    /\ ~ret.panic
    /\ ret.val.rows = 2
    /\ ret.val.cols = 2
    /\ ret.val.values[2] # ret.val.values[3]

(* C2: every matrix a run can hold satisfies values.len() = rows * cols.   *)
C2_WellFormed == WellFormed(m) /\ (~ret.panic /\ op \in Constructors => WellFormed(ret.val))

C2_Witness ==
    /\ steps = 2
    /\ op = "submatrix"
    /\ ~ret.panic
    /\ m.rows = 2
    /\ m.cols = 3

(* C3: for every matrix M with r rows and c columns, M.transpose() has c   *)
(* rows and r columns and its element (j, i) is M.value_at(i, j).  Stated  *)
(* here for the matrices with at least one row and one column.             *)
C3_Transpose ==
    op = "transpose" /\ args.self.rows >= 1 /\ args.self.cols >= 1 =>
        LET M == args.self
        IN  /\ ~ret.panic
            /\ ret.val.rows = M.cols
            /\ ret.val.cols = M.rows
            /\ \A i \in 0..(M.rows - 1), j \in 0..(M.cols - 1) :
                  value_at(ret.val, j, i) = value_at(M, i, j)

(* C4: value_at(row, col) and write_value(row, col, v) panic whenever      *)
(* row >= rows or col >= cols.                                             *)
C4_OutOfRange ==
    op \in {"value_at", "write_value"} =>
        (~InRange(args.self, args.row, args.col) => ret.panic)

(* The cell (i, j) of a well-formed matrix, 0-based.                       *)
Cell(M, i, j) == M.values[i * M.cols + j + 1]

(* The sum of the f64 values f[1], ..., f[n].                              *)
RECURSIVE SumTo(_, _)
SumTo(f, n) == IF n = 0 THEN F(0) ELSE FAdd(SumTo(f, n - 1), f[n])

(* The product of the f64 values f[1], ..., f[n].                          *)
RECURSIVE ProdTo(_, _)
ProdTo(f, n) == IF n = 0 THEN F(1) ELSE FMul(ProdTo(f, n - 1), f[n])

(* C5: A * B panics exactly when A.cols # B.rows; otherwise the result has *)
(* A.rows rows and B.cols columns and its element (i, j) is the sum over k *)
(* of A(i, k) * B(k, j).                                                   *)
C5_Mul ==
    op = "mul" =>
        LET A == args.self
            B == args.other
        IN  /\ ret.panic <=> A.cols # B.rows
            /\ ~ret.panic =>
                  /\ ret.val.rows = A.rows
                  /\ ret.val.cols = B.cols
                  /\ \A i \in 0..(A.rows - 1), j \in 0..(B.cols - 1) :
                        value_at(ret.val, i, j)
                            = Ok(SumTo([k \in 1..A.cols |->
                                           FMul(Cell(A, i, k - 1), Cell(B, k - 1, j))],
                                       A.cols))

(* The dot product of row i of M with the four components of t.            *)
Dot4(M, i, t) ==
    SumTo([k \in 1..4 |-> FMul(Cell(M, i, k - 1), t[k])], 4)

(* C6, as amended: M * t succeeds for every matrix with exactly 4 columns  *)
(* and at least 4 rows, returning the tuple whose component i (i in 0..3)  *)
(* is the dot product of row i of M with the components of t; it panics    *)
(* for every matrix whose column count is not 4 or that has fewer than 4   *)
(* rows.                                                                   *)
C6_MulTuple ==
    op = "mul_tuple" =>
        LET M == args.self
            t == args.other
        IN  /\ ret.panic <=> (M.cols # 4 \/ M.rows < 4)
            /\ ~ret.panic => \A i \in 0..3 : ret.val[i + 1] = Dot4(M, i, t)

C6_Witness ==
    /\ op = "mul_tuple"
    /\ ~ret.panic
    /\ args.self.rows >= 4
    /\ args.self.cols = 4
    /\ args.other = point(F(1), F(2), F(3))
    /\ ret.val = point(F(18), F(24), F(33))

(* C6, as claimed: M * t succeeds for every matrix with exactly 4 columns  *)
(* and panics for every matrix whose column count is not 4.                *)
C6_Original ==
    op = "mul_tuple" =>
        LET M == args.self
            t == args.other
        IN  /\ ret.panic <=> M.cols # 4
            /\ ~ret.panic => \A i \in 0..3 : ret.val[i + 1] = Dot4(M, i, t)

(* C7: for every matrix M with r rows and c columns (of finite cells),     *)
(* identity(r) * M equals M and M * identity(c) equals M.                  *)
C7_Identity ==
    op \in {"identity_times", "times_identity"} /\ AllFinite(args.self) =>
        ~ret.panic /\ ret.val = TRUE

Square(M) == M.rows = M.cols

(* The permutations of 1..n, and the number of inversions of one.          *)
Perms(n) == {p \in [1..n -> 1..n] : \A i, j \in 1..n : p[i] = p[j] => i = j}

Inversions(p) == Cardinality({ij \in (DOMAIN p) \X (DOMAIN p) : ij[1] < ij[2] /\ p[ij[1]] > p[ij[2]]})

(* The signed product of the cells (i, p(i)) of M.                         *)
Term(M, p) ==
    FMul(IF Inversions(p) % 2 = 0 THEN F(1) ELSE F(-1),
         ProdTo([i \in 1..M.rows |-> Cell(M, i - 1, p[i] - 1)], M.rows))

(* The sum of Term(M, p) over a set of permutations.                       *)
RECURSIVE SumTerms(_, _)
SumTerms(M, ps) ==
    IF ps = {} THEN F(0)
    ELSE LET p == CHOOSE q \in ps : TRUE
         IN  FAdd(Term(M, p), SumTerms(M, ps \ {p}))

(* The determinant of a square matrix as the signed sum over permutations. *)
Leibniz(M) == SumTerms(M, Perms(M.rows))

(* C8: for every square matrix of order 2, 3 or 4 (of finite cells),       *)
(* determinant() is the signed sum over permutations: a*d - b*c at order   *)
(* 2, and at orders 3 and 4 the sum over the columns j of                  *)
(* M(0, j) * cofactor(0, j), where cofactor(r, c) is minor(r, c), negated  *)
(* exactly when r + c is odd.                                              *)
C8_Determinant ==
    LET M == args.self
    IN  /\ op = "determinant" /\ Square(M) /\ M.rows \in 2..4 /\ AllFinite(M) =>
              /\ ~ret.panic
              /\ ret.val = Leibniz(M)
              /\ M.rows = 2 =>
                    ret.val = FSub(FMul(Cell(M, 0, 0), Cell(M, 1, 1)),
                                   FMul(Cell(M, 0, 1), Cell(M, 1, 0)))
              /\ M.rows > 2 =>
                    ret.val = SumTo([j \in 1..M.cols |->
                                        FMul(Cell(M, 0, j - 1), cofactor(M, 0, j - 1).val)],
                                    M.cols)
        /\ op = "cofactor" /\ Square(M) /\ M.rows \in 3..4 /\ AllFinite(M)
              /\ InRange(M, args.row, args.col) =>
              /\ ~ret.panic
              /\ LET mn == Leibniz(submatrix(M, args.row, args.col).val)
                 IN  ret.val = IF (args.row + args.col) % 2 = 1 THEN FNeg(mn) ELSE mn

C8_Witness ==
    /\ op = "determinant"
    /\ args.self.rows = 4
    /\ args.self.cols = 4
    /\ ~ret.panic
    /\ ret.val = F(-4071)

(* C9: for every matrix with r >= 2 rows and c >= 2 columns and in-range   *)
(* rrow, rcol, submatrix(rrow, rcol) has r-1 rows and c-1 columns and      *)
(* holds exactly the cells of the original whose row is not rrow and whose *)
(* column is not rcol, in their original row-major order.                  *)
C9_Submatrix ==
    LET M == args.self
    IN  op = "submatrix" /\ M.rows >= 2 /\ M.cols >= 2
            /\ InRange(M, args.rrow, args.rcol) =>
            /\ ~ret.panic
            /\ ret.val.rows = M.rows - 1
            /\ ret.val.cols = M.cols - 1
            /\ \A i \in 0..(M.rows - 2), j \in 0..(M.cols - 2) :
                  value_at(ret.val, i, j)
                      = Ok(Cell(M, IF i < args.rrow THEN i ELSE i + 1,
                                   IF j < args.rcol THEN j ELSE j + 1))

C9_Witness ==
    /\ op = "submatrix"
    /\ args.self.rows = 4
    /\ args.self.cols = 4
    /\ args.rrow = 2
    /\ args.rcol = 1
    /\ ~ret.panic
    /\ ret.val.values[2] # ret.val.values[4]

(* The products of the inverse law, as booleans.                           *)
IsTrue(r) == ~r.panic /\ r.val = TRUE

(* C10: for every square matrix M of order 2 to 4 (of finite cells) with   *)
(* non-zero determinant, inverse() returns the matrix whose element (r, c) *)
(* is cofactor(c, r) / determinant; M * M.inverse() and M.inverse() * M    *)
(* equal the identity, and (A * M) * M.inverse() equals A for every        *)
(* compatible A.                                                           *)
C10_Inverse ==
    LET M == args.self
    IN  op = "inverse" /\ Square(M) /\ M.rows \in 2..4 /\ AllFinite(M)
            /\ Leibniz(M) # F(0) =>
            /\ ~ret.panic
            /\ ret.val.rows = M.rows
            /\ ret.val.cols = M.cols
            /\ \A r \in 0..(M.rows - 1), c \in 0..(M.cols - 1) :
                  value_at(ret.val, r, c)
                      = Ok(FDiv(cofactor(M, c, r).val, Leibniz(M)))
            /\ IsTrue(MulThenEq(Matrix_mul(M, ret.val), identity(M.rows).val))
            /\ IsTrue(MulThenEq(Matrix_mul(ret.val, M), identity(M.rows).val))
            /\ \A A \in {B \in Operands : B.cols = M.rows} :
                  IsTrue(MulThenEq(Matrix_mul(Matrix_mul(A, M).val, ret.val), A))

(* C11: for all x, y, z, translation(x, y, z) * translation(x, y,        *)
(* z).inverse() equals identity(4); the inverse is the translation by      *)
(* (-x, -y, -z), and applied to a translated point it returns the original *)
(* point.                                                                  *)
C11_TranslationInverse ==
    \A o \in Offsets :
        LET x == o[1]
            y == o[2]
            z == o[3]
            T == translation(x, y, z).val
        IN  op = "inverse" /\ args.self = T =>
                /\ ~ret.panic
                /\ IsTrue(MulThenEq(Matrix_mul(T, ret.val), identity(4).val))
                /\ IsTrue(Matrix_eq(ret.val, translation(FNeg(x), FNeg(y), FNeg(z)).val))
                /\ \A p \in {t \in Tuples : t[4] = F(1)} :
                      LET tp == Matrix_mul_tuple(T, p)
                      IN  ~tp.panic /\ Matrix_mul_tuple(ret.val, tp.val) = Ok(p)

C11_Witness ==
    /\ op = "inverse"
    /\ args.self = translation(F(-3), Frac(1, 2), F(5)).val
    /\ ~ret.panic
    /\ value_at(ret.val, 0, 3) = Ok(F(3))
    /\ value_at(ret.val, 1, 3) = Ok(Frac(-1, 2))
    /\ value_at(ret.val, 2, 3) = Ok(F(-5))

(* C12: for all points p, p' (w = 1) and vectors v, v' (w = 0), p - v is   *)
(* a point (w = 1), v - v' is a vector (w = 0) and p - p' is a vector      *)
(* (w = 0); x, y and z are subtracted component by component.              *)
C12_SubTags ==
    op = "sub" =>
        LET t == args.self
            r == args.rhs
        IN  /\ is_point(t) /\ is_vector(r) => is_point(ret.val) /\ ret.val[4] = F(1)
            /\ is_vector(t) /\ is_vector(r) => is_vector(ret.val) /\ ret.val[4] = F(0)
            /\ is_point(t) /\ is_point(r) => is_vector(ret.val) /\ ret.val[4] = F(0)
            /\ \A i \in 1..3 : FAdd(ret.val[i], r[i]) = t[i]

C12_Witness ==
    /\ op = "sub"
    /\ args.self = point(F(1), F(-1), F(0))
    /\ args.rhs = vector(F(-1), F(1), F(1))
    /\ ret = Ok(point(F(2), F(-2), F(-1)))

(* The tuple t with another w component.                                   *)
WithW(t, w) == Tuple_new(t[1], t[2], t[3], w)

(* C13: for all vectors a and b, a.cross(b) equals -(b.cross(a)); the      *)
(* result of cross is always a vector (w = 0) and depends on the x, y, z   *)
(* components of its operands only.                                        *)
C13_CrossAnti ==
    op = "cross" =>
        LET a == args.self
            b == args.rhs
        IN  /\ is_vector(ret.val) /\ ret.val[4] = F(0)
            /\ \A wa \in {F(1), F(-3)}, wb \in {F(0), F(2)} :
                  cross(WithW(a, wa), WithW(b, wb)) = ret.val
            /\ is_vector(a) /\ is_vector(b) =>
                  /\ Tuple_eq(ret.val, Tuple_neg(cross(b, a)))
                  /\ \A i \in 1..3 : FAdd(ret.val[i], cross(b, a)[i]) = F(0)

C13_Witness ==
    /\ op = "cross"
    /\ args.self = vector(F(1), F(0), F(0))
    /\ args.rhs = vector(F(0), F(1), F(0))
    /\ ret = Ok(vector(F(0), F(0), F(1)))
    /\ Tuple_neg(cross(args.rhs, args.self)) = vector(F(0), F(0), F(1))

(* The discriminant b*b - 4*a*c of a ray against the unit sphere.          *)
QuadA(ray) == dot(ray.direction, ray.direction)

SphereToRay(ray) == Tuple_sub(ray.origin, point(F(0), F(0), F(0)))

QuadB(ray) == FMul(F(2), dot(ray.direction, SphereToRay(ray)))

QuadC(ray) == FSub(dot(SphereToRay(ray), SphereToRay(ray)), F(1))

Discriminant(ray) ==
    FSub(FMul(QuadB(ray), QuadB(ray)), FMul(F(4), FMul(QuadA(ray), QuadC(ray))))

FLe(x, y) == FLt(x, y) \/ FEq(x, y)

(* C15: whenever Sphere::intersect returns a non-empty sequence, its       *)
(* intersections are in ascending order of t: the first t is less than or  *)
(* equal to the second.                                                    *)
C15_Ascending ==
    op = "intersect" /\ ret.val # <<>> =>
        /\ Len(ret.val) = 2
        /\ FLe(ret.val[1].t, ret.val[2].t)

(* C16: for every component and every max >= 0, scale(component, max) is   *)
(* component * max truncated toward zero and then clamped: an integer of   *)
(* 0..max, 0 for a negative product and max for a product above max.       *)
C16_Scale ==
    op = "scale" /\ args.max >= 0 =>
        LET product == FMul(args.input, F(args.max))
            n == product[1]
            d == product[2]
        IN  /\ ret.val \in 0..args.max
            /\ FLt(product, F(0)) => ret.val = 0
            /\ FLt(F(args.max), product) => ret.val = args.max
            /\ IsFinite(product) /\ n >= 0 /\ n <= args.max * d =>
                  ret.val * d <= n /\ n < (ret.val + 1) * d

C16_Witness ==
    /\ op = "scale"
    /\ args.input = Frac(1, 4)
    /\ args.max = 255
    /\ ret = Ok(63)

(* The write_pixel calls made so far were all within the canvas.           *)
InRangeWrites ==
    \A k \in DOMAIN writes : writes[k][1] < canvas.width /\ writes[k][2] < canvas.height

(* The colour of the last write to (x, y); black if it was never written.  *)
LastWritten(x, y) ==
    LET ks == {k \in DOMAIN writes : writes[k][1] = x /\ writes[k][2] = y}
    IN  IF ks = {} THEN Color_new(F(0), F(0), F(0))
        ELSE writes[CHOOSE k \in ks : \A j \in ks : j <= k][3]

(* C17: a new canvas has every pixel black; after any sequence of          *)
(* write_pixel calls with x < width and y < height, pixel_at(x, y) is the  *)
(* colour of the last write to (x, y), and black at every coordinate never *)
(* written: a write leaves every other coordinate as it was.               *)
C17_CanvasFrame ==
    /\ op = "Canvas::new" =>
          \A k \in DOMAIN ret.val.pixels : ret.val.pixels[k] = Color_new(F(0), F(0), F(0))
    /\ op # "init" /\ ~ret.panic /\ InRangeWrites =>
          \A x \in 0..(canvas.width - 1), y \in 0..(canvas.height - 1) :
              pixel_at(canvas, x, y) = Ok(LastWritten(x, y))
    /\ op = "pixel_at" /\ InRangeWrites
              /\ args.x < canvas.width /\ args.y < canvas.height =>
          ret = Ok(LastWritten(args.x, args.y))

C17_Witness ==
    /\ op = "pixel_at"
    /\ canvas.width = 2
    /\ canvas.height = 2
    /\ writes = <<<<1, 0, red>>, <<1, 0, green>>>>
    /\ args = [x |-> 1, y |-> 0]
    /\ ret = Ok(green)
    /\ pixel_at(canvas, 0, 0) = Ok(black)

(* C18: for all x, y, z and all a, b, c, translation(x, y, z) * point(a,   *)
(* b, c) equals point(a + x, b + y, c + z), and translation(x, y, z) *     *)
(* vector(a, b, c) equals vector(a, b, c); the w component of the operand  *)
(* is kept in both cases.                                                  *)
C18_TranslationTuple ==
    \A o \in Offsets :
        op = "mul_tuple" /\ args.self = translation(o[1], o[2], o[3]).val =>
            LET t == args.other
            IN  /\ t[4] = F(1) =>
                      ret = Ok(point(FAdd(t[1], o[1]), FAdd(t[2], o[2]), FAdd(t[3], o[3])))
                /\ t[4] = F(0) => ret = Ok(vector(t[1], t[2], t[3]))
                /\ ~ret.panic /\ ret.val[4] = t[4]

C18_Witness ==
    /\ op = "mul_tuple"
    /\ args.self = translation(F(5), F(-3), F(2)).val
    /\ args.other = point(F(-3), F(4), F(5))
    /\ ret = Ok(point(F(2), F(1), F(7)))

(* C19: for every square matrix of order n >= 2, determinant() returns     *)
(* without a panic; the calls of determinant() it makes are on square      *)
(* matrices of the orders n, n - 1, ..., 2, one less at each level, and    *)
(* none is on a matrix with fewer than 2 rows.                             *)
C19_DeterminantTerminates ==
    LET M == args.self
    IN  op = "determinant" /\ Square(M) /\ M.rows >= 2 =>
            /\ ~ret.panic
            /\ DeterminantCalls(M) = {<<k, k>> : k \in 2..M.rows}
            /\ \A col \in 0..(M.cols - 1) :
                  M.rows > 2 =>
                      LET sm == submatrix(M, 0, col)
                      IN  ~sm.panic /\ sm.val.rows = M.rows - 1
                                   /\ sm.val.cols = M.cols - 1

C19_Witness ==
    /\ op = "determinant"
    /\ args.self.rows = 4
    /\ args.self.cols = 4
    /\ ~ret.panic
    /\ DeterminantCalls(args.self) = {<<4, 4>>, <<3, 3>>, <<2, 2>>}
    /\ ret.val = F(532)

====
